---- MODULE Spec2Model ----
(***************************************************************************)
(* junk_drawer.decorators.async_tools: await_me, staticmethod_await_me and *)
(* classmethod_await_me, run by a parent coroutine on an asyncio event     *)
(* loop whose default executor is a ThreadPoolExecutor.                    *)
(*                                                                         *)
(* A parent coroutine makes one or two adapted calls, in one of the three  *)
(* shapes the module docstring shows:                                      *)
(*     single   await blocker_1(a)                                        *)
(*     seq      await blocker_1(a); await blocker_2(b)                   *)
(*     gather   await asyncio.gather(blocker_1(a), blocker_2(b))         *)
(* Values are strings; an outcome (of a call, a future, a job) is a record *)
(* [kind, type, pos, kw].                                                  *)
(***************************************************************************)
EXTENDS Integers, Sequences, FiniteSets, TLC

\* ------------------------------------------------------------------ bounds
MaxArgs == 2
MaxDur == 2
MaxWorkers == 2

\* ------------------------------------------------------------------ values
Calls == {1, 2}
DataVals == {"a", "b"}
K == "K"
Obj == "obj"
KAttr == "K.attr"
ConstVal == "const"
Receivers == {K, Obj}

SeqsUpTo(S, n) == UNION {[1..k -> S] : k \in 0..n}

NoKw == << >>
KwChoices == {NoKw, << <<"k", "a">> >>, << <<"k", "b">> >>}

\* ---------------------------------------------------------------- outcomes
Pending == [kind |-> "pending", type |-> "", pos |-> << >>, kw |-> NoKw]
Cancelled == [kind |-> "cancelled", type |-> "", pos |-> << >>, kw |-> NoKw]
Return(pos, kw) == [kind |-> "return", type |-> "", pos |-> pos, kw |-> kw]
Raise(type, pos, kw) == [kind |-> "raise", type |-> type, pos |-> pos, kw |-> kw]
CancelledError == Raise("CancelledError", << >>, NoKw)

\* ------------------------------------------------- the callables wrapped
\* The original callables (blocker_func) the decorators are applied to:
\*   echo(a.., k..)       sleeps, returns (a, k)
\*   boom(a.., k..)       sleeps, raises ValueError(a, k)
\*   const()             returns a constant
\*   read_attr(cls)      returns cls.attr
\* and the same four written with `async def` (co_*).
SyncFuncs == {"echo", "boom", "const", "read_attr"}
CoroFuncs == {"co_echo", "co_boom", "co_const", "co_read_attr"}
Funcs == SyncFuncs \cup CoroFuncs

Body(f) ==
    CASE f \in {"echo", "co_echo"} -> "echo"
      [] f \in {"boom", "co_boom"} -> "boom"
      [] f \in {"const", "co_const"} -> "const"
      [] OTHER -> "read_attr"

\* Python's argument binding: whether f(pos.., kw..) matches f's signature.
Binds(f, pos, kw) ==
    CASE Body(f) = "const" -> Len(pos) = 0 /\ Len(kw) = 0
      [] Body(f) = "read_attr" -> Len(pos) = 1 /\ Len(kw) = 0
      [] OTHER -> TRUE

\* The outcome of f(pos.., kw..).
Apply(f, pos, kw) ==
    IF ~Binds(f, pos, kw) THEN Raise("TypeError", << >>, NoKw)
    ELSE CASE Body(f) = "echo" -> Return(pos, kw)
           [] Body(f) = "boom" -> Raise("ValueError", pos, kw)
           [] Body(f) = "const" -> Return(<<ConstVal>>, NoKw)
           [] OTHER -> IF pos[1] \in Receivers
                       THEN Return(<<KAttr>>, NoKw)
                       ELSE Raise("AttributeError", << >>, NoKw)

\* How long f(pos.., kw..) pauses before it returns or raises: the pause the
\* caller asked for, or none when the call fails at argument binding.
Pause(f, pos, kw, dur) == IF Binds(f, pos, kw) THEN dur ELSE 0

\* asyncio.iscoroutinefunction(blocker_func)
IsCoroutineFunction(f) == f \in CoroFuncs

\* ----------------------------------------------------------- the decorators
Variants == {"plain", "static", "class"}

\* The ways a decorated callable is reached: a free function, through an
\* instance, through the class.
Shapes ==
    { [variant |-> "plain", via |-> "function"],
      [variant |-> "plain", via |-> "instance"],
      [variant |-> "static", via |-> "instance"],
      [variant |-> "static", via |-> "class"],
      [variant |-> "class", via |-> "instance"],
      [variant |-> "class", via |-> "class"] }

\* Mutant: the wrapper returned bare, so an instance reaching it is bound as
\* its first argument.
WrapperArgsBound(variant, via, pos) ==
    IF via = "instance" /\ variant \in {"plain", "static"} THEN <<Obj>> \o pos ELSE pos

\* What the decorator returns decides what the wrapper receives as *args:
\* a plain function reached through an instance is a bound method (the
\* instance comes first); staticmethod(wrapper) and classmethod(wrapper)
\* add nothing to *args.
WrapperArgs(variant, via, pos) ==
    IF variant = "plain" /\ via = "instance" THEN <<Obj>> \o pos ELSE pos

\* classmethod(wrapper) binds the owning class, also through an instance, to
\* the wrapper's parameter cls.
WrapperCls(variant, via) == IF variant = "class" THEN K ELSE ""

\* Mutants: the check of the callable's kind left out, one way or the other.
AlwaysDirect(f) == "direct"
AlwaysThread(f) == "thread"

\* The branch the wrapper takes.
WrapperBranch(f) == IF IsCoroutineFunction(f) THEN "direct" ELSE "thread"

\* The positional arguments of `await blocker_func(args.., kwargs..)`.
DirectArgs(variant, cls, args) == args

\* Mutant: cls not handed on to the worker thread.
ThreadArgsNoCls(variant, cls, args) == args

\* The positional arguments of asyncio.to_thread(blocker_func, ...).
ThreadArgs(variant, cls, args) ==
    IF variant = "class" THEN <<cls>> \o args ELSE args

\* Mutant: the keyword arguments not handed on.
DropKw(kw) == NoKw

\* The keyword arguments the wrapper hands on.
PassKw(kw) == kw

\* Mutant: an exception of the awaited call swallowed.
SwallowReturn(outcome) ==
    IF outcome.kind = "raise" THEN Return(<<"None">>, NoKw) ELSE outcome

\* `return await ...`: the wrapper's own outcome, given the outcome of what
\* it awaited.
WrapperReturn(outcome) == outcome

\* What the worker thread gets from blocker_func(args.., kwargs..): the call's
\* outcome, or, for a coroutine function, the coroutine object it returns
\* unawaited.
CallOnThread(f, pos, kw) ==
    IF IsCoroutineFunction(f) /\ Binds(f, pos, kw)
    THEN Return(<<"coroutine object">>, NoKw)
    ELSE Apply(f, pos, kw)

PauseOnThread(f, pos, kw, dur) ==
    IF IsCoroutineFunction(f) THEN 0 ELSE Pause(f, pos, kw, dur)

\* What `await blocker_func(args.., kwargs..)` gives on the event loop: the
\* coroutine's outcome, or, for a synchronous function that returned, the
\* TypeError of awaiting a plain value.
AwaitCall(f, pos, kw) ==
    IF ~IsCoroutineFunction(f) /\ Apply(f, pos, kw).kind = "return"
    THEN Raise("TypeError", << >>, NoKw)
    ELSE Apply(f, pos, kw)

\* ------------------------------------------------------------------- state
VARIABLES
    mode,       \* the parent's shape: "single", "seq" or "gather"
    poolSize,   \* worker threads of the loop's default executor
    call,       \* call[i]: the callable, how it is decorated and reached, its arguments
    driverPc,   \* the parent coroutine: "running", "done", "cancelled"
    driverOut,  \* how the parent's await ended: "pending", "return", "raise", "cancelled"
    doneAt,     \* the time the parent's await ended
    wpc,        \* wpc[i]: the wrapper coroutine of call i
    job,        \* job[i]: the executor's work item of call i
    jobArgs,    \* jobArgs[i]: the arguments submitted with it
    jobOut,     \* jobOut[i]: the outcome the worker thread computed
    inner,      \* inner[i]: blocker_func's own run on the event-loop thread
    fut,        \* fut[i]: the awaitable the wrapper is suspended on
    remaining,  \* remaining[i]: time units call i's work still pauses
    result,     \* result[i]: what the awaiting caller received
    invoked,    \* invoked[i]: every invocation of blocker_func, with its arguments and thread
    submits,    \* submits[i]: submissions to the thread pool
    now         \* the clock

vars == <<mode, poolSize, call, driverPc, driverOut, doneAt, wpc, job, jobArgs,
          jobOut, inner, fut, remaining, result, invoked, submits, now>>

NoArgs == [pos |-> << >>, kw |-> NoKw]

\* One call with any callable, shape and arguments.
WideInputs ==
    { [func |-> f, variant |-> s.variant, via |-> s.via, pos |-> p, kw |-> k, dur |-> 1] :
        f \in Funcs, s \in Shapes, p \in SeqsUpTo(DataVals, MaxArgs), k \in KwChoices }

\* The calls of a two-call parent: blocker(n) style callables pausing dur.
PairFuncs == {"echo", "boom", "co_echo"}
PairInputs ==
    { [func |-> f, variant |-> s.variant, via |-> s.via, pos |-> <<"a">>, kw |-> NoKw, dur |-> d] :
        f \in PairFuncs, s \in Shapes, d \in 1..MaxDur }

Unused == [func |-> "echo", variant |-> "plain", via |-> "function",
           pos |-> << >>, kw |-> NoKw, dur |-> 1]

Init ==
    /\ mode \in {"single", "seq", "gather"}
    /\ poolSize \in 1..MaxWorkers
    /\ IF mode = "single"
       THEN call \in {[i \in Calls |-> IF i = 1 THEN c ELSE Unused] : c \in WideInputs}
       ELSE call \in [Calls -> PairInputs]
    /\ driverPc = "running"
    /\ driverOut = "pending"
    /\ doneAt = 0
    /\ wpc = [i \in Calls |-> "unstarted"]
    /\ job = [i \in Calls |-> "none"]
    /\ jobArgs = [i \in Calls |-> NoArgs]
    /\ jobOut = [i \in Calls |-> Pending]
    /\ inner = [i \in Calls |-> "none"]
    /\ fut = [i \in Calls |-> Pending]
    /\ remaining = [i \in Calls |-> 0]
    /\ result = [i \in Calls |-> Pending]
    /\ invoked = [i \in Calls |-> << >>]
    /\ submits = [i \in Calls |-> 0]
    /\ now = 0

ConstInputs == <<mode, poolSize, call>>

\* The event-loop thread runs callbacks only while no synchronous call holds it.
LoopFree == \A i \in Calls : inner[i] # "blocking"

Awaiting(i) == wpc[i] \in {"await_direct", "await_thread"}

\* ------------------------------------------------------------ the parent
\* The parent reaches the call of blocker_i: `await blocker_1(); await
\* blocker_2()` reaches the second only when the first await returned;
\* gather starts its tasks in order.
DriverMayIssue(i) ==
    /\ driverPc = "running"
    /\ wpc[i] = "unstarted"
    /\ CASE mode = "single" -> i = 1
         [] mode = "seq" -> \/ i = 1
                            \/ i = 2 /\ wpc[1] = "done" /\ result[1].kind = "return"
         [] OTHER -> i = 1 \/ wpc[1] # "unstarted"

\* ------------------------------------------------------------ the wrapper
\* The arguments the wrapper of call i was entered with.
EnteredArgs(i) == WrapperArgs(call[i].variant, call[i].via, call[i].pos)
EnteredCls(i) == WrapperCls(call[i].variant, call[i].via)

\* Mutant: the submission not awaited, the wrapper returning the future.
SubmitAwaitableNoAwait == Return(<<"future object">>, NoKw)

\* The awaitable of asyncio.to_thread at submission: the wrapper awaits it,
\* and it has no result before the worker thread has finished.
SubmitAwaitable == Pending

\* Mutant: the wrapper going on before the awaited call has an outcome.
AwaitReadyAlways(i) == TRUE

\* The wrapper may go on past its await.
AwaitReady(i) == fut[i].kind \in {"return", "raise"}

\* if asyncio.iscoroutinefunction(blocker_func):
\*     return await blocker_func(args.., kwargs..)
\* The call is made on the event-loop thread; a call that fails at argument
\* binding raises out of the wrapper at once.
WrapperDirect(i) ==
    LET c == call[i]
        dpos == DirectArgs(c.variant, EnteredCls(i), EnteredArgs(i))
        dkw == PassKw(c.kw)
    IN  /\ DriverMayIssue(i)
        /\ LoopFree
        /\ WrapperBranch(c.func) = "direct"
        /\ invoked' = [invoked EXCEPT ![i] = Append(@, [pos |-> dpos, kw |-> dkw, on |-> "loop"])]
        /\ IF Binds(c.func, dpos, dkw)
           THEN /\ inner' = [inner EXCEPT ![i] =
                        IF IsCoroutineFunction(c.func) THEN "sleeping" ELSE "blocking"]
                /\ remaining' = [remaining EXCEPT ![i] = Pause(c.func, dpos, dkw, c.dur)]
                /\ wpc' = [wpc EXCEPT ![i] = "await_direct"]
                /\ UNCHANGED result
           ELSE /\ wpc' = [wpc EXCEPT ![i] = "done"]
                /\ result' = [result EXCEPT ![i] = WrapperReturn(AwaitCall(c.func, dpos, dkw))]
                /\ UNCHANGED <<inner, remaining>>
        /\ UNCHANGED <<ConstInputs, driverPc, driverOut, doneAt, job, jobArgs, jobOut,
                       fut, submits, now>>

\* return await asyncio.to_thread(blocker_func, args.., kwargs..)
\* The call is queued on the default executor and the wrapper suspends.
WrapperOffload(i) ==
    LET c == call[i]
    IN  /\ DriverMayIssue(i)
        /\ LoopFree
        /\ WrapperBranch(c.func) = "thread"
        /\ job' = [job EXCEPT ![i] = "queued"]
        /\ jobArgs' = [jobArgs EXCEPT ![i] =
                [pos |-> ThreadArgs(c.variant, EnteredCls(i), EnteredArgs(i)),
                 kw |-> PassKw(c.kw)]]
        /\ submits' = [submits EXCEPT ![i] = @ + 1]
        /\ fut' = [fut EXCEPT ![i] = SubmitAwaitable]
        /\ wpc' = [wpc EXCEPT ![i] = "await_thread"]
        /\ UNCHANGED <<ConstInputs, driverPc, driverOut, doneAt, jobOut, inner,
                       remaining, result, invoked, now>>

\* The awaited call has an outcome: the wrapper returns it, or raises it, to
\* its awaiting caller.
CanResume(i) == Awaiting(i) /\ AwaitReady(i) /\ LoopFree

Resume(i) ==
    /\ CanResume(i)
    /\ wpc' = [wpc EXCEPT ![i] = "done"]
    /\ result' = [result EXCEPT ![i] = WrapperReturn(fut[i])]
    /\ UNCHANGED <<ConstInputs, driverPc, driverOut, doneAt, job, jobArgs, jobOut,
                   inner, fut, remaining, invoked, submits, now>>

\* ---------------------------------------------------- the host's executor
Busy == Cardinality({i \in Calls : job[i] = "running"})

\* A free worker thread takes the oldest queued work item and calls
\* blocker_func with the submitted arguments.
CanPickup(i) ==
    /\ job[i] = "queued"
    /\ Busy < poolSize
    /\ \A j \in Calls : j < i => job[j] # "queued"

WorkerPickup(i) ==
    LET c == call[i]
        a == jobArgs[i]
    IN  /\ CanPickup(i)
        /\ job' = [job EXCEPT ![i] = "running"]
        /\ invoked' = [invoked EXCEPT ![i] = Append(@, [pos |-> a.pos, kw |-> a.kw, on |-> "worker"])]
        /\ remaining' = [remaining EXCEPT ![i] = PauseOnThread(c.func, a.pos, a.kw, c.dur)]
        /\ UNCHANGED <<ConstInputs, driverPc, driverOut, doneAt, wpc, jobArgs, jobOut,
                       inner, fut, result, submits, now>>

\* blocker_func returns or raises on the worker thread; the outcome reaches
\* the awaitable the wrapper is suspended on, unless that was cancelled.
CanWorkerFinish(i) == job[i] = "running" /\ remaining[i] = 0

WorkerFinish(i) ==
    LET out == CallOnThread(call[i].func, jobArgs[i].pos, jobArgs[i].kw)
    IN  /\ CanWorkerFinish(i)
        /\ job' = [job EXCEPT ![i] = "finished"]
        /\ jobOut' = [jobOut EXCEPT ![i] = out]
        /\ fut' = [fut EXCEPT ![i] = IF @.kind = "cancelled" THEN @ ELSE out]
        /\ UNCHANGED <<ConstInputs, driverPc, driverOut, doneAt, wpc, jobArgs, inner,
                       remaining, result, invoked, submits, now>>

\* blocker_func, called on the event-loop thread, comes to its end.
CanInnerFinish(i) ==
    /\ inner[i] \in {"sleeping", "blocking"}
    /\ remaining[i] = 0
    /\ inner[i] = "sleeping" => LoopFree

InnerFinish(i) ==
    LET a == invoked[i][Len(invoked[i])]
    IN  /\ CanInnerFinish(i)
        /\ inner' = [inner EXCEPT ![i] = "finished"]
        /\ fut' = [fut EXCEPT ![i] = AwaitCall(call[i].func, a.pos, a.kw)]
        /\ UNCHANGED <<ConstInputs, driverPc, driverOut, doneAt, wpc, job, jobArgs,
                       jobOut, remaining, result, invoked, submits, now>>

\* ------------------------------------------------- the parent's await ends
Raised(i) == wpc[i] = "done" /\ result[i].kind = "raise"

\* An exception of an awaited call ends the parent's await (gather passes the
\* first one on); otherwise it ends when every call it makes has returned.
DriverEnded ==
    CASE mode = "single" -> wpc[1] = "done"
      [] mode = "seq" -> Raised(1) \/ wpc[2] = "done"
      [] OTHER -> /\ \A i \in Calls : wpc[i] # "unstarted"
                  /\ \/ \E i \in Calls : Raised(i)
                     \/ \A i \in Calls : wpc[i] = "done"

CanDriverFinish == driverPc = "running" /\ LoopFree /\ DriverEnded

DriverFinish ==
    /\ CanDriverFinish
    /\ driverPc' = "done"
    /\ driverOut' = IF \E i \in Calls : Raised(i) THEN "raise" ELSE "return"
    /\ doneAt' = now
    /\ UNCHANGED <<ConstInputs, wpc, job, jobArgs, jobOut, inner, fut, remaining,
                   result, invoked, submits>>
    /\ UNCHANGED now

\* ------------------------------------------------------------ cancellation
\* Mutant: cancellation reaching work a worker thread is running.
JobAfterCancelInterrupt(j) == "cancelled"

\* What cancelling the awaitable of asyncio.to_thread does to the work item:
\* one still queued is dropped by the executor, one a worker thread is
\* already running is left alone (the wrapper has no handler of its own).
JobAfterCancel(j) == IF j = "queued" THEN "cancelled" ELSE j

\* The parent is cancelled while it is suspended: CancelledError is raised at
\* the await of every wrapper still suspended, and a gather task that has not
\* started never runs.
Cancel ==
    /\ driverPc = "running"
    /\ LoopFree
    /\ \E i \in Calls : Awaiting(i)
    /\ driverPc' = "cancelled"
    /\ driverOut' = "cancelled"
    /\ doneAt' = now
    /\ wpc' = [i \in Calls |->
                 IF Awaiting(i) \/ (mode = "gather" /\ wpc[i] = "unstarted")
                 THEN "cancelled" ELSE wpc[i]]
    /\ result' = [i \in Calls |-> IF Awaiting(i) THEN CancelledError ELSE result[i]]
    /\ fut' = [i \in Calls |-> IF Awaiting(i) THEN Cancelled ELSE fut[i]]
    /\ job' = [i \in Calls |-> IF Awaiting(i) THEN JobAfterCancel(job[i]) ELSE job[i]]
    /\ inner' = [i \in Calls |->
                 IF Awaiting(i) /\ inner[i] = "sleeping" THEN "cancelled" ELSE inner[i]]
    /\ UNCHANGED <<ConstInputs, jobArgs, jobOut, remaining, invoked, submits, now>>

\* -------------------------------------------------------------------- time
Active(i) == job[i] = "running" \/ inner[i] \in {"sleeping", "blocking"}

\* Steps that take no time happen before the clock moves.
Urgent ==
    \/ CanDriverFinish
    \/ \E i \in Calls :
          \/ CanWorkerFinish(i)
          \/ CanInnerFinish(i)
          \/ CanPickup(i)
          \/ CanResume(i)
          \/ DriverMayIssue(i) /\ LoopFree

\* One time unit passes for every call at work, on a worker thread or
\* suspended on the event loop, at once.
Tick ==
    /\ \E i \in Calls : Active(i)
    /\ ~Urgent
    /\ now' = now + 1
    /\ remaining' = [i \in Calls |-> IF Active(i) THEN remaining[i] - 1 ELSE remaining[i]]
    /\ UNCHANGED <<ConstInputs, driverPc, driverOut, doneAt, wpc, job, jobArgs,
                   jobOut, inner, fut, result, invoked, submits>>

Next ==
    \/ \E i \in Calls : WrapperDirect(i)
    \/ \E i \in Calls : WrapperOffload(i)
    \/ \E i \in Calls : Resume(i)
    \/ \E i \in Calls : WorkerPickup(i)
    \/ \E i \in Calls : WorkerFinish(i)
    \/ \E i \in Calls : InnerFinish(i)
    \/ DriverFinish
    \/ Cancel
    \/ Tick

Spec == Init /\ [][Next]_vars

\* ================================================================== claims
Delivered(i) == wpc[i] = "done"
IsSync(i) == call[i].func \in SyncFuncs
Made(i) == mode # "single" \/ i = 1

\* The positional arguments the original callable gets when the same call is
\* made on the undecorated function, bound method, @staticmethod or
\* @classmethod.
RefPos(i) ==
    CASE call[i].variant = "plain" /\ call[i].via = "instance" -> <<Obj>> \o call[i].pos
      [] call[i].variant = "class" -> <<K>> \o call[i].pos
      [] OTHER -> call[i].pos

\* The outcome of that direct call.
RefOutcome(i) == Apply(call[i].func, RefPos(i), call[i].kw)

OnWorkerOnce(i, pos, kw) == invoked[i] = << [pos |-> pos, kw |-> kw, on |-> "worker"] >>

Max(a, b) == IF a >= b THEN a ELSE b

\* C1: awaiting a synchronous callable adapted with await_me resolves to
\* exactly what the direct call returns or raises, and the worker thread ran
\* the callable once with the caller's positional and keyword arguments,
\* unchanged and in order.
C1_SameValue ==
    \A i \in Calls :
        (call[i].variant = "plain" /\ IsSync(i) /\ Delivered(i)) =>
            /\ result[i] = RefOutcome(i)
            /\ OnWorkerOnce(i, RefPos(i), call[i].kw)

C1_Witness ==
    /\ call[1].variant = "plain" /\ call[1].func = "echo"
    /\ call[1].pos = <<"a", "b">> /\ call[1].kw = << <<"k", "b">> >>
    /\ Delivered(1)
    /\ result[1] = Return(<<"a", "b">>, << <<"k", "b">> >>)

\* C2: when the synchronous callable raises E for the arguments given, the
\* awaiting caller receives that same E, type and message, never a return
\* value and never another exception.
C2_SameException ==
    \A i \in Calls :
        (IsSync(i) /\ Delivered(i) /\ RefOutcome(i).kind = "raise") =>
            /\ result[i].kind = "raise"
            /\ result[i].type = RefOutcome(i).type
            /\ result[i].pos = RefOutcome(i).pos
            /\ result[i].kw = RefOutcome(i).kw

C2_Witness ==
    /\ call[1].variant = "plain" /\ call[1].func = "boom"
    /\ call[1].pos = <<"b", "a">>
    /\ Delivered(1)
    /\ result[1] = Raise("ValueError", <<"b", "a">>, call[1].kw)

\* C3: two blocking callables gathered, with a worker thread free for each:
\* neither waits in the executor's queue while time passes, the event-loop
\* thread runs neither, and a gather that returns ends at max(n_g, n_h),
\* never later.
C3_Overlap ==
    (mode = "gather" /\ poolSize >= 2 /\ \A i \in Calls : IsSync(i)) =>
        /\ LoopFree
        /\ \A i \in Calls :
              /\ job[i] = "queued" => now = 0
              /\ \A k \in 1..Len(invoked[i]) : invoked[i][k].on = "worker"
        /\ driverPc = "done" => doneAt <= Max(call[1].dur, call[2].dur)
        /\ (driverPc = "done" /\ driverOut = "return") =>
                doneAt = Max(call[1].dur, call[2].dur)

C3_Witness ==
    /\ mode = "gather" /\ poolSize >= 2
    /\ call[1].func = "echo" /\ call[2].func = "echo"
    /\ call[1].dur = 1 /\ call[2].dur = 2
    /\ driverPc = "done" /\ driverOut = "return"
    /\ doneAt = 2
    /\ \A i \in Calls : result[i].kind = "return"

\* C4: a synchronous function adapted with classmethod_await_me runs on the
\* worker thread with the owning class first and the caller's arguments
\* after it, so a method returning a class attribute gives the caller that
\* attribute's value.
C4_ClassReinserted ==
    \A i \in Calls :
        (call[i].variant = "class" /\ IsSync(i) /\ Delivered(i)) =>
            /\ OnWorkerOnce(i, <<K>> \o call[i].pos, call[i].kw)
            /\ result[i] = RefOutcome(i)
            /\ (call[i].func = "read_attr" /\ call[i].pos = << >> /\ call[i].kw = NoKw) =>
                    result[i] = Return(<<KAttr>>, NoKw)

C4_Witness ==
    /\ call[1].variant = "class" /\ call[1].via = "class"
    /\ call[1].func = "read_attr"
    /\ Delivered(1)
    /\ invoked[1] = << [pos |-> <<K>>, kw |-> NoKw, on |-> "worker"] >>
    /\ result[1] = Return(<<KAttr>>, NoKw)

\* C5: a synchronous function adapted with staticmethod_await_me gets exactly
\* the caller's arguments, no instance and no class before them, whether it
\* is reached through an instance or through the class; both awaits resolve
\* to what the original function returns, hence to the same value.
C5_StaticNoReceiver ==
    /\ \A i \in Calls :
          (call[i].variant = "static" /\ IsSync(i) /\ Delivered(i)) =>
              /\ OnWorkerOnce(i, call[i].pos, call[i].kw)
              /\ result[i] = Apply(call[i].func, call[i].pos, call[i].kw)
    /\ \A i, j \in Calls :
          ( /\ call[i].variant = "static" /\ call[j].variant = "static"
            /\ call[i].via = "instance" /\ call[j].via = "class"
            /\ IsSync(i) /\ call[i].func = call[j].func
            /\ call[i].pos = call[j].pos /\ call[i].kw = call[j].kw
            /\ Delivered(i) /\ Delivered(j) ) => result[i] = result[j]

C5_Witness ==
    /\ mode = "gather"
    /\ call[1].variant = "static" /\ call[1].via = "instance"
    /\ call[2].variant = "static" /\ call[2].via = "class"
    /\ call[1].func = "echo" /\ call[2].func = "echo"
    /\ Delivered(1) /\ Delivered(2)
    /\ result[1] = Return(<<"a">>, NoKw)
    /\ result[2] = Return(<<"a">>, NoKw)

\* C6: a coroutine function adapted with await_me is awaited on the caller's
\* side: nothing is ever submitted to the thread pool for the call, no worker
\* thread runs it, and the await resolves to the coroutine's own value.
C6_NoThreadHop ==
    \A i \in Calls :
        (call[i].variant = "plain" /\ ~IsSync(i)) =>
            /\ submits[i] = 0
            /\ job[i] = "none"
            /\ \A k \in 1..Len(invoked[i]) : invoked[i][k].on = "loop"
            /\ Delivered(i) => result[i] = RefOutcome(i)

C6_Witness ==
    /\ call[1].variant = "plain" /\ call[1].func = "co_const"
    /\ Delivered(1)
    /\ result[1] = Return(<<ConstVal>>, NoKw)
    /\ submits[1] = 0
    /\ invoked[1] = << [pos |-> << >>, kw |-> NoKw, on |-> "loop"] >>

\* The work of call i has come to its end.
WorkComplete(i) == job[i] = "finished" \/ inner[i] = "finished"

\* C7: in `await blocker_1(); await blocker_2()` nothing of blocker_2 starts
\* (no wrapper step, no submission, no invocation) before blocker_1's work
\* has completed and its result has been delivered to the caller.
C7_Sequential ==
    (mode = "seq" /\ (wpc[2] # "unstarted" \/ job[2] # "none" \/ invoked[2] # << >>)) =>
        /\ Delivered(1)
        /\ result[1].kind = "return"
        /\ WorkComplete(1)

C7_Witness ==
    /\ mode = "seq"
    /\ IsSync(1) /\ IsSync(2)
    /\ job[2] = "running"
    /\ job[1] = "finished" /\ Delivered(1)

\* C8: a caller cancelled while suspended on an offloaded call receives
\* CancelledError at that await and never the work's outcome; work a worker
\* thread had already started is neither cancelled nor interrupted: it stays
\* running, on its thread, until it finishes with its own outcome.
C8_NoInterrupt ==
    \A i \in Calls :
        (wpc[i] = "cancelled" /\ submits[i] = 1) =>
            /\ result[i] = CancelledError
            /\ fut[i] = Cancelled
            /\ invoked[i] # << >> => job[i] \in {"running", "finished"}
            /\ job[i] = "running" => Busy >= 1 /\ Len(invoked[i]) = 1
            /\ job[i] = "finished" => jobOut[i] = RefOutcome(i)

C8_Witness ==
    /\ driverPc = "cancelled"
    /\ wpc[1] = "cancelled"
    /\ job[1] = "finished"
    /\ jobOut[1] = Return(<<"a">>, NoKw)
    /\ result[1] = CancelledError

\* C9: a call runs the original callable at most once and is submitted to
\* the thread pool at most once; a call that has resolved ran it exactly
\* once, and resolved with the one outcome, a return value or an exception,
\* of that run.
C9_ExactlyOnce ==
    \A i \in Calls :
        /\ Len(invoked[i]) <= 1
        /\ submits[i] <= 1
        /\ Delivered(i) =>
              /\ Len(invoked[i]) = 1
              /\ result[i].kind \in {"return", "raise"}
              /\ result[i] = Apply(call[i].func, invoked[i][1].pos, invoked[i][1].kw)
              /\ submits[i] = IF invoked[i][1].on = "worker" THEN 1 ELSE 0

C9_Witness ==
    /\ call[1].func = "boom"
    /\ Delivered(1)
    /\ result[1].kind = "raise" /\ result[1].type = "ValueError"
    /\ Len(invoked[1]) = 1 /\ submits[1] = 1
    /\ job[1] = "finished"
    /\ driverPc = "done" /\ driverOut = "raise"

\* C10: in the class variant the original callable gets the owning class as
\* its first positional argument on both paths, the worker thread's and the
\* direct await's.
C10_ClassOnBothPaths ==
    \A i \in Calls :
        call[i].variant = "class" =>
            \A k \in 1..Len(invoked[i]) : invoked[i][k].pos = <<K>> \o call[i].pos

====
